---- MODULE Spec2Model ----
(***************************************************************************)
(* One game room of the overbooking game: the GameRoom state machine       *)
(* (src/game_models.py), the websocket handler and the round timer         *)
(* (src/main.py) and the connection registry (src/connection_manager.py).  *)
(*                                                                         *)
(* Every handler runs on one asyncio event loop; an action is one handler  *)
(* run from the message (or timer expiry) that wakes it to its end.        *)
(***************************************************************************)
EXTENDS Integers, Sequences, FiniteSets, TLC

\* ---------------------------------------------------------------- bounds
\* TOTAL_BOOKINGS_PER_GAME is 15 in src/game_logic.py:16; the model plays a
\* shorter game.
NumBookings == 2
\* Non-host players that can join the room (uuid4 identities in the source).
MaxPlayers == 2
\* accepted_bookings is unbounded in the source; the model stops accepting here.
MaxAccepted == 2
\* start_game messages that are processed (each creates one round_timer task,
\* so this also bounds the pending timers).
MaxStarts == 2
\* FLIGHT_CAPACITY is 100 in src/game_models.py:7 with volumes of 5..15; the
\* model scales capacity and volume down together.
Capacity == 1

\* ------------------------------------------------------ program constants
OVERBOOKING_PENALTY_PER_SEAT == 6000
UNDERBOOKING_PENALTY_PER_SEAT == 3000
AVG_SEAT_PRICE == 4000

host_id == 0
PlayerIds == 0..MaxPlayers
\* One websocket connection per player id; connection 1 is the host's.
Conns == 1..(MaxPlayers + 1)
BookingIds == 0..(NumBookings - 1)
NoBooking == -1

\* The player id in the websocket URL of connection c.
ConnPlayer(c) == c - 1

\* len(booking.passengers) and booking.price_per_seat of booking b.
volume(b) == 1
price_per_seat(b) == AVG_SEAT_PRICE

VARIABLES
    players,            \* GameRoom.players: player id -> Player
    current_round,      \* GameRoom.current_round
    game_status,        \* GameRoom.game_status
    active_connections, \* ConnectionManager.active_connections[room_id]
    conn,               \* per connection: transport and serving task
    timers,             \* pending round_timer tasks, by captured round
    starts,             \* start_game messages processed so far
    emission,           \* a per-recipient send loop suspended at an await
    last                \* what the last handler did

vars == <<players, current_round, game_status, active_connections, conn,
          timers, starts, emission, last>>

\* ------------------------------------------------------------- dictionaries
EmptyDict == [k \in {} |-> 0]
Put(d, k, v) == [x \in (DOMAIN d) \cup {k} |-> IF x = k THEN v ELSE d[x]]

\* ------------------------------------------------------------------ Player
NewPlayer ==
    [accepted_bookings |-> <<>>,
     final_revenue |-> 0,
     overbooking_penalty |-> 0,
     underbooking_penalty |-> 0,
     total_score |-> 0,
     choice_history |-> EmptyDict,
     show_up_history |-> EmptyDict,
     \* not fields of Player: the total_showed_up of the last scoring pass and
     \* the number of scoring passes applied to this player
     total_showed_up |-> 0,
     scored |-> 0]

\* The room as one value, for the methods of GameRoom.
Room == [players |-> players, current_round |-> current_round,
         game_status |-> game_status]

add_player(g, pid) ==
    IF pid \notin DOMAIN g.players
    THEN [g EXCEPT !.players = Put(@, pid, NewPlayer)]
    ELSE g

get_current_booking(g) ==
    IF 0 <= g.current_round /\ g.current_round < NumBookings
    THEN g.current_round
    ELSE NoBooking

\* ----------------------------------------------------------------- scoring
RECURSIVE SumSeq(_)
SumSeq(s) == IF s = <<>> THEN 0 ELSE Head(s) + SumSeq(Tail(s))

\* The show-up counts random.random() can produce for a list of bookings.
RECURSIVE ShowUps(_)
ShowUps(acc) ==
    IF acc = <<>> THEN {<<>>}
    ELSE {<<k>> \o t : k \in 0..volume(Head(acc)), t \in ShowUps(Tail(acc))}

RECURSIVE ShowUpChoices(_, _)
ShowUpChoices(ps, S) ==
    IF S = {} THEN {EmptyDict}
    ELSE LET p == CHOOSE x \in S : TRUE
         IN {(p :> s) @@ f : s \in ShowUps(ps[p].accepted_bookings),
                             f \in ShowUpChoices(ps, S \ {p})}

\* Every outcome of the draws of one scoring pass over all players.
AnyAttendance(ps) == ShowUpChoices(ps, DOMAIN ps)

\* The outcome in which no passenger cancels.
FullAttendance(ps) ==
    {[p \in DOMAIN ps |->
        [i \in 1..Len(ps[p].accepted_bookings) |->
            volume(ps[p].accepted_bookings[i])]]}

RECURSIVE RecordShowUps(_, _, _)
RecordShowUps(hist, acc, sh) ==
    IF acc = <<>> THEN hist
    ELSE RecordShowUps(Put(hist, Head(acc), Head(sh)), Tail(acc), Tail(sh))

calculate_final_score(player, sh) ==
    LET acc == player.accepted_bookings
        total_showed_up == SumSeq(sh)
        total_revenue ==
            SumSeq([i \in 1..Len(acc) |-> sh[i] * price_per_seat(acc[i])])
        over == IF total_showed_up > Capacity
                THEN (total_showed_up - Capacity) * OVERBOOKING_PENALTY_PER_SEAT
                ELSE player.overbooking_penalty
        under == IF total_showed_up < Capacity
                 THEN (Capacity - total_showed_up) * UNDERBOOKING_PENALTY_PER_SEAT
                 ELSE player.underbooking_penalty
    IN [player EXCEPT
            !.show_up_history = RecordShowUps(@, acc, sh),
            !.final_revenue = total_revenue,
            !.overbooking_penalty = over,
            !.underbooking_penalty = under,
            !.total_score = total_revenue - over - under,
            !.total_showed_up = total_showed_up,
            !.scored = @ + 1]

end_game(g, sh) ==
    [g EXCEPT !.game_status = "FINISHED",
              !.players = [p \in DOMAIN g.players |->
                              calculate_final_score(g.players[p], sh[p])]]

\* ---------------------------------------------------------------- GameRoom
\* advance_to_next_round without the "not in player.choice_history" test.
advance_overwriting_choices(g, sh) ==
    LET cb == get_current_booking(g)
        g1 == IF cb # NoBooking
              THEN [g EXCEPT !.players = [p \in DOMAIN g.players |->
                        IF p # host_id
                        THEN [g.players[p] EXCEPT
                                 !.choice_history = Put(@, cb, "Rejected")]
                        ELSE g.players[p]]]
              ELSE g
    IN IF g1.current_round < NumBookings
       THEN LET g2 == [g1 EXCEPT !.current_round = @ + 1]
            IN IF g2.current_round = NumBookings THEN end_game(g2, sh) ELSE g2
       ELSE g1

\* advance_to_next_round without the "current_round < len(bookings)" test.
advance_without_round_guard(g, sh) ==
    LET cb == get_current_booking(g)
        g1 == IF cb # NoBooking
              THEN [g EXCEPT !.players = [p \in DOMAIN g.players |->
                        IF p # host_id /\ cb \notin DOMAIN g.players[p].choice_history
                        THEN [g.players[p] EXCEPT
                                 !.choice_history = Put(@, cb, "Rejected")]
                        ELSE g.players[p]]]
              ELSE g
        g2 == [g1 EXCEPT !.current_round = @ + 1]
    IN IF g2.current_round = NumBookings THEN end_game(g2, sh) ELSE g2

advance_to_next_round(g, sh) ==
    LET cb == get_current_booking(g)
        g1 == IF cb # NoBooking
              THEN [g EXCEPT !.players = [p \in DOMAIN g.players |->
                        IF p # host_id /\ cb \notin DOMAIN g.players[p].choice_history
                        THEN [g.players[p] EXCEPT
                                 !.choice_history = Put(@, cb, "Rejected")]
                        ELSE g.players[p]]]
              ELSE g
    IN IF g1.current_round < NumBookings
       THEN LET g2 == [g1 EXCEPT !.current_round = @ + 1]
            IN IF g2.current_round = NumBookings THEN end_game(g2, sh) ELSE g2
       ELSE g1

\* player_accept_booking without the choice_history assignment.
accept_without_history(g, pid) ==
    LET cb == get_current_booking(g)
    IN IF pid \in DOMAIN g.players /\ cb # NoBooking
       THEN [g EXCEPT !.players[pid] =
                [@ EXCEPT !.accepted_bookings = Append(@, cb)]]
       ELSE g

player_accept_booking(g, pid) ==
    LET cb == get_current_booking(g)
    IN IF pid \in DOMAIN g.players /\ cb # NoBooking
       THEN [g EXCEPT !.players[pid] =
                [@ EXCEPT !.accepted_bookings = Append(@, cb),
                          !.choice_history = Put(@, cb, "Accepted")]]
       ELSE g

start_game(g) == [g EXCEPT !.game_status = "IN_PROGRESS", !.current_round = 0]

\* ------------------------------------------------------------- connections
Registered == {active_connections[i] : i \in 1..Len(active_connections)}
OpenConns == {c \in Conns : conn[c] = "open"}

RemoveFirst(L, c) ==
    IF \E i \in 1..Len(L) : L[i] = c
    THEN LET i == CHOOSE j \in 1..Len(L) :
                      L[j] = c /\ \A k \in 1..(j - 1) : L[k] # c
         IN SubSeq(L, 1, i - 1) \o SubSeq(L, i + 1, Len(L))
    ELSE L

\* send_text on a connection whose transport is closed raises RuntimeError.
\* ConnectionManager.broadcast_html catches it per connection.
broadcast_html(L, open) ==
    [got |-> {L[i] : i \in {j \in 1..Len(L) : L[j] \in open}},
     raised |-> FALSE]

\* The per-recipient loops of start_new_round have no try: the first closed
\* connection ends the loop with the exception.
send_each(L, open) ==
    LET bad == {i \in 1..Len(L) : L[i] \notin open}
    IN IF bad = {}
       THEN [got |-> {L[i] : i \in 1..Len(L)}, raised |-> FALSE]
       ELSE LET first == CHOOSE i \in bad : \A j \in bad : i <= j
            IN [got |-> {L[i] : i \in 1..(first - 1)}, raised |-> TRUE]

NoDelivery == [kind |-> "none", targets |-> {}, open |-> {}, got |-> {},
               raised |-> FALSE]

\* No per-recipient loop of start_new_round is suspended.
NoEmission == [active |-> FALSE, kind |-> "none", idx |-> 0, got |-> <<>>,
               raised |-> FALSE]

Delivery(kind, L, open, d) ==
    [kind |-> kind,
     targets |-> {L[i] : i \in 1..Len(L)},
     open |-> {L[i] : i \in {j \in 1..Len(L) : L[j] \in open}},
     got |-> d.got,
     raised |-> d.raised]

\* start_new_round on room value g: the room afterwards, what was delivered,
\* and the round a round_timer task was created for (NoBooking: none).
start_new_round(g, sh) ==
    IF get_current_booking(g) # NoBooking
    THEN LET d == send_each(active_connections, OpenConns)
         IN [room |-> g,
             delivery |-> Delivery("round", active_connections, OpenConns, d),
             timer |-> IF d.raised THEN NoBooking ELSE g.current_round]
    ELSE LET d == send_each(active_connections, OpenConns)
         IN [room |-> end_game(g, sh),
             delivery |-> Delivery("results", active_connections, OpenConns, d),
             timer |-> NoBooking]

\* ------------------------------------------------------------------ actions
SetRoom(g) ==
    /\ players' = g.players
    /\ current_round' = g.current_round
    /\ game_status' = g.game_status

Step(op, c, issued, delivery) ==
    [op |-> op, conn |-> c, round |-> current_round, issued |-> issued,
     delivery |-> delivery]

\* host_game: the room exists, the host is its first player.
Init ==
    /\ players = (host_id :> NewPlayer)
    /\ current_round = 0
    /\ game_status = "WAITING"
    /\ active_connections = <<>>
    /\ conn = [c \in Conns |-> "idle"]
    /\ timers = [r \in BookingIds |-> 0]
    /\ starts = 0
    /\ emission = NoEmission
    /\ last = [op |-> "host_game", conn |-> 0, round |-> 0, issued |-> 0,
               delivery |-> NoDelivery]

\* get_game_room for a browser without a player of this room.
AddPlayer ==
    /\ Cardinality(DOMAIN players) <= MaxPlayers
    /\ LET pid == Cardinality(DOMAIN players)
       IN SetRoom(add_player(Room, pid))
    /\ last' = Step("add_player", 0, current_round, NoDelivery)
    /\ UNCHANGED <<active_connections, conn, timers, starts, emission>>

\* websocket_endpoint up to its receive loop.
Connect(c) ==
    /\ conn[c] = "idle"
    /\ ConnPlayer(c) \in DOMAIN players
    /\ conn' = [conn EXCEPT ![c] = "open"]
    /\ active_connections' = Append(active_connections, c)
    /\ last' = Step("connect", c, current_round,
                    Delivery("lobby", active_connections', OpenConns \cup {c},
                             broadcast_html(active_connections', OpenConns \cup {c})))
    /\ UNCHANGED <<players, current_round, game_status, timers, starts,
                   emission>>

\* The client goes away; its serving task has not yet seen the disconnect.
ClientClose(c) ==
    /\ conn[c] = "open"
    /\ conn' = [conn EXCEPT ![c] = "closed"]
    /\ last' = Step("close", c, current_round, NoDelivery)
    /\ UNCHANGED <<players, current_round, game_status, active_connections,
                   timers, starts, emission>>

\* websocket_endpoint's except WebSocketDisconnect branch.
HandleDisconnect(c) ==
    /\ conn[c] = "closed"
    /\ conn' = [conn EXCEPT ![c] = "ended"]
    /\ active_connections' = RemoveFirst(active_connections, c)
    /\ last' = Step("disconnect", c, current_round,
                    Delivery("lobby", active_connections', OpenConns,
                             broadcast_html(active_connections', OpenConns)))
    /\ UNCHANGED <<players, current_round, game_status, timers, starts,
                   emission>>

\* action == "start_game" on connection c.
ReceiveStart(c) ==
    /\ conn[c] \in {"open", "closed"}
    /\ starts < MaxStarts
    /\ LET r == start_new_round(start_game(Room), EmptyDict)
           cn == IF r.delivery.raised THEN [conn EXCEPT ![c] = "crashed"] ELSE conn
       IN /\ SetRoom(r.room)
          /\ conn' = cn
          /\ timers' = IF r.timer # NoBooking
                       THEN [timers EXCEPT ![r.timer] = @ + 1] ELSE timers
          /\ last' = Step("start_game", c, current_round, r.delivery)
    /\ starts' = starts + 1
    /\ UNCHANGED <<active_connections, emission>>

\* The confirmation sent back on the handler's own websocket.
Confirm(c) ==
    IF conn[c] = "open" THEN conn ELSE [conn EXCEPT ![c] = "crashed"]

\* The rounds during which a message now read from connection c can have been
\* sent: the current one, or the one a timer has just closed while the message
\* was on its way.
IssueRounds(c) ==
    {current_round} \cup
    (IF last.op = "advance" /\ conn[c] \in {"open", "closed"}
     THEN {last.round} ELSE {})

\* action == "accept_booking" on connection c, sent while round `issued` was
\* current.
ReceiveAccept(c, issued) ==
    /\ conn[c] \in {"open", "closed"}
    /\ issued \in IssueRounds(c)
    /\ LET pid == ConnPlayer(c)
           g == player_accept_booking(Room, pid)
       IN /\ Len(g.players[pid].accepted_bookings) <= MaxAccepted
          /\ SetRoom(g)
    /\ conn' = Confirm(c)
    /\ last' = Step("accept_booking", c, issued, NoDelivery)
    /\ UNCHANGED <<active_connections, timers, starts, emission>>

\* action == "reject_booking" on connection c.
ReceiveReject(c) ==
    /\ conn[c] \in {"open", "closed"}
    /\ conn' = Confirm(c)
    /\ last' = Step("reject_booking", c, current_round, NoDelivery)
    /\ UNCHANGED <<players, current_round, game_status, active_connections,
                   timers, starts, emission>>

\* A message whose action is none of the three the loop tests: no branch runs
\* and the loop reads the next message.
ReceiveUnknown(c) ==
    /\ conn[c] \in {"open", "closed"}
    /\ last' = Step("unknown_action", c, current_round, NoDelivery)
    /\ UNCHANGED <<players, current_round, game_status, active_connections,
                   conn, timers, starts, emission>>

\* A text frame that is not JSON: json.loads raises a ValueError, which the
\* handler's only except clause (WebSocketDisconnect) does not catch.
ReceiveMalformed(c) ==
    /\ conn[c] \in {"open", "closed"}
    /\ conn' = [conn EXCEPT ![c] = "crashed"]
    /\ last' = Step("malformed", c, current_round, NoDelivery)
    /\ UNCHANGED <<players, current_round, game_status, active_connections,
                   timers, starts, emission>>

\* The draws a round_timer task for round r consumes: those of the attendance
\* set A if it ends the game, none otherwise.
Draws(r, A) ==
    IF current_round = r /\ r + 1 = NumBookings THEN A ELSE {EmptyDict}

\* round_timer without the "current_round == round_number" test.
round_timer_unchecked(r, sh1, sh2) ==
    /\ timers[r] > 0
    /\ LET sh == CHOOSE f \in FullAttendance(players) : TRUE
           res == start_new_round(advance_to_next_round(Room, sh), sh)
           t1 == [timers EXCEPT ![r] = @ - 1]
       IN /\ SetRoom(res.room)
          /\ timers' = IF res.timer # NoBooking
                       THEN [t1 EXCEPT ![res.timer] = @ + 1] ELSE t1
          /\ last' = Step("advance", 0, r, res.delivery)
    /\ UNCHANGED <<active_connections, conn, starts, emission>>

\* A round_timer task that captured round r wakes up; sh1 and sh2 are the
\* show-ups drawn by the scoring passes it runs, if it runs any.
TimerFire(r, sh1, sh2) ==
    /\ timers[r] > 0
    /\ IF current_round = r
       THEN LET res == start_new_round(advance_to_next_round(Room, sh1), sh2)
                t1 == [timers EXCEPT ![r] = @ - 1]
            IN /\ SetRoom(res.room)
               /\ timers' = IF res.timer # NoBooking
                            THEN [t1 EXCEPT ![res.timer] = @ + 1] ELSE t1
               /\ last' = Step("advance", 0, r, res.delivery)
       ELSE /\ timers' = [timers EXCEPT ![r] = @ - 1]
            /\ last' = Step("stale_timer", 0, r, NoDelivery)
            /\ UNCHANGED <<players, current_round, game_status>>
    /\ UNCHANGED <<active_connections, conn, starts, emission>>

\* The game with connections that stay open.
Next ==
    \/ AddPlayer
    \/ \E c \in Conns : Connect(c)
    \/ \E c \in Conns : ReceiveStart(c)
    \/ \E c \in Conns : \E issued \in 0..NumBookings : ReceiveAccept(c, issued)
    \/ \E c \in Conns : ReceiveReject(c)
    \/ \E r \in BookingIds : \E sh \in Draws(r, FullAttendance(players)) :
          TimerFire(r, sh, sh)

Spec == Init /\ [][Next]_vars

\* ---------------------------------------------------------------------------
\* A game just started by the host with one player in the room, both
\* connected, and with attendance drawn freely by every scoring pass.
InitScore ==
    /\ players = [p \in {host_id, 1} |-> NewPlayer]
    /\ current_round = 0
    /\ game_status = "IN_PROGRESS"
    /\ active_connections = <<1, 2>>
    /\ conn = [c \in Conns |-> IF c \in {1, 2} THEN "open" ELSE "idle"]
    /\ timers = [r \in BookingIds |-> IF r = 0 THEN 1 ELSE 0]
    /\ starts = 1
    /\ emission = NoEmission
    /\ last = [op |-> "start_game", conn |-> 1, round |-> 0, issued |-> 0,
               delivery |-> Delivery("round", active_connections, {1, 2},
                                     send_each(active_connections, {1, 2}))]

NextScore ==
    \/ \E c \in Conns : \E issued \in 0..NumBookings : ReceiveAccept(c, issued)
    \/ \E r \in BookingIds : \E sh1, sh2 \in Draws(r, AnyAttendance(players)) :
          TimerFire(r, sh1, sh2)

SpecScore == InitScore /\ [][NextScore]_vars

\* ---------------------------------------------------------------------------
\* One game from the host's start_game to the results: further players join
\* while it runs (and never decide), the connected ones decide, the timers
\* close the rounds.
NextRound ==
    \/ AddPlayer
    \/ \E c \in Conns : \E issued \in 0..NumBookings : ReceiveAccept(c, issued)
    \/ \E c \in Conns : ReceiveReject(c)
    \/ \E r \in BookingIds : \E sh \in Draws(r, FullAttendance(players)) :
          TimerFire(r, sh, sh)

SpecRound == InitScore /\ [][NextRound]_vars

\* ---------------------------------------------------------------------------
\* The round timers of a room whose game is started again while it runs:
\* every start_game creates one more round_timer task for round 0, further
\* players join and connect, the tasks fire in any order.
NextTimer ==
    \/ AddPlayer
    \/ \E c \in Conns : Connect(c)
    \/ \E c \in Conns : ReceiveStart(c)
    \/ \E r \in BookingIds : \E sh \in Draws(r, FullAttendance(players)) :
          TimerFire(r, sh, sh)

SpecTimer == InitScore /\ [][NextTimer]_vars

\* ---------------------------------------------------------------------------
\* The GameRoom object by itself: its methods add_player,
\* player_accept_booking and advance_to_next_round called in any order on a
\* started room, advance_to_next_round also after the last round.
Advance(sh) ==
    /\ SetRoom(advance_to_next_round(Room, sh))
    /\ last' = Step("advance_to_next_round", 0, current_round, NoDelivery)
    /\ UNCHANGED <<active_connections, conn, timers, starts, emission>>

NextRoom ==
    \/ AddPlayer
    \/ \E c \in Conns : \E issued \in 0..NumBookings : ReceiveAccept(c, issued)
    \/ \E sh \in Draws(current_round, AnyAttendance(players)) : Advance(sh)

SpecRoom == InitScore /\ [][NextRoom]_vars

\* ---------------------------------------------------------------------------
\* The connection life cycle around a game in which nobody decides: the
\* players have joined, connections open, close and are unregistered.
InitConn ==
    /\ players = [p \in PlayerIds |-> NewPlayer]
    /\ current_round = 0
    /\ game_status = "WAITING"
    /\ active_connections = <<>>
    /\ conn = [c \in Conns |-> "idle"]
    /\ timers = [r \in BookingIds |-> 0]
    /\ starts = 0
    /\ emission = NoEmission
    /\ last = [op |-> "add_player", conn |-> 0, round |-> 0, issued |-> 0,
               delivery |-> NoDelivery]

NextConn ==
    \/ \E c \in Conns : Connect(c)
    \/ \E c \in Conns : ClientClose(c)
    \/ \E c \in Conns : HandleDisconnect(c)
    \/ \E c \in Conns : ReceiveStart(c)
    \/ \E r \in BookingIds : \E sh \in Draws(r, FullAttendance(players)) :
          TimerFire(r, sh, sh)

SpecConn == InitConn /\ [][NextConn]_vars

\* The same with clients that also send frames the receive loop has no
\* branch for.
NextServe ==
    \/ NextConn
    \/ \E c \in Conns : ReceiveUnknown(c)
    \/ \E c \in Conns : ReceiveMalformed(c)

SpecServe == InitConn /\ [][NextServe]_vars

\* asyncio.sleep(5) ends: a round_timer task that stays pending fires.
TimerFairness ==
    WF_vars(\E r \in BookingIds : \E sh \in Draws(r, FullAttendance(players)) :
               TimerFire(r, sh, sh))

SpecConnFair == InitConn /\ [][NextConn]_vars /\ TimerFairness

\* ---------------------------------------------------------------------------
\* The per-recipient loops of start_new_round, one await at a time. The loop
\* iterates the list get_connections_in_room returns, which is the registry's
\* own list and not a copy; a Python list iterator keeps an index and reads
\* the list as it is when the loop resumes. While the loop is suspended in
\* send_text the serving tasks of the connections run.

\* One turn of the loop at index em.idx of list L: send to the connection
\* there, or leave the loop with the exception of a closed one, or end.
loop_turn(em, L, open) ==
    IF em.idx > Len(L)
    THEN [em EXCEPT !.active = FALSE]
    ELSE IF L[em.idx] \in open
         THEN [em EXCEPT !.got = Append(@, L[em.idx]), !.idx = @ + 1]
         ELSE [em EXCEPT !.active = FALSE, !.raised = TRUE]

\* What the turn that produced em did.
turn_op(em) ==
    IF em.raised THEN "emit_raise" ELSE IF em.active THEN "emit_send" ELSE "emit_end"

\* The round_timer task of round r wakes up with its round current: it
\* advances the room and runs start_new_round up to the await of its first
\* send.
EmitBegin(r, sh1, sh2) ==
    /\ timers[r] > 0
    /\ current_round = r
    /\ ~emission.active
    /\ LET g == advance_to_next_round(Room, sh1)
           results == get_current_booking(g) = NoBooking
           em == loop_turn([active |-> TRUE,
                            kind |-> IF results THEN "results" ELSE "round",
                            idx |-> 1, got |-> <<>>, raised |-> FALSE],
                           active_connections, OpenConns)
       IN /\ SetRoom(IF results THEN end_game(g, sh2) ELSE g)
          /\ emission' = em
          /\ timers' = IF ~em.active /\ ~em.raised /\ ~results
                       THEN [timers EXCEPT ![r] = @ - 1, ![r + 1] = @ + 1]
                       ELSE [timers EXCEPT ![r] = @ - 1]
          /\ last' = Step(turn_op(em), 0, r, NoDelivery)
    /\ UNCHANGED <<active_connections, conn, starts>>

\* The suspended loop resumes after a send: the next turn, and after the last
\* one the round_timer task of the new round.
EmitResume ==
    /\ emission.active
    /\ LET em == loop_turn(emission, active_connections, OpenConns)
       IN /\ emission' = em
          /\ timers' = IF ~em.active /\ ~em.raised /\ em.kind = "round"
                       THEN [timers EXCEPT ![current_round] = @ + 1]
                       ELSE timers
          /\ last' = Step(turn_op(em), 0, current_round, NoDelivery)
    /\ UNCHANGED <<players, current_round, game_status, active_connections,
                   conn, starts>>

\* A started game with every player connected.
InitEmit ==
    /\ players = [p \in PlayerIds |-> NewPlayer]
    /\ current_round = 0
    /\ game_status = "IN_PROGRESS"
    /\ active_connections = [i \in 1..(MaxPlayers + 1) |-> i]
    /\ conn = [c \in Conns |-> "open"]
    /\ timers = [r \in BookingIds |-> IF r = 0 THEN 1 ELSE 0]
    /\ starts = 1
    /\ emission = NoEmission
    /\ last = [op |-> "start_game", conn |-> 1, round |-> 0, issued |-> 0,
               delivery |-> Delivery("round", active_connections, Conns,
                                     send_each(active_connections, Conns))]

NextEmit ==
    \/ \E c \in Conns : ClientClose(c)
    \/ \E c \in Conns : HandleDisconnect(c)
    \/ \E r \in BookingIds : \E sh \in Draws(r, FullAttendance(players)) :
          EmitBegin(r, sh, sh)
    \/ EmitResume

SpecEmit == InitEmit /\ [][NextEmit]_vars

\* ---------------------------------------------------------------------------
\* Properties
\* ---------------------------------------------------------------------------
StatusRank(st) ==
    CASE st = "WAITING" -> 0
      [] st = "IN_PROGRESS" -> 1
      [] st = "FINISHED" -> 2

Count(seq, x) == Cardinality({i \in 1..Len(seq) : seq[i] = x})

NonHost(ps) == (DOMAIN ps) \ {host_id}

\* C1: the session status never moves back: over every step the status after
\* is the same as or later than the status before, in the order WAITING,
\* IN_PROGRESS, FINISHED.
C1_StatusNeverMovesBack ==
    [][StatusRank(game_status') >= StatusRank(game_status)]_vars

\* C2: scoring runs exactly once per player: no player is ever scored more
\* than once, and right after the advance that takes current_round to the
\* booking count every player has been scored exactly once.
C2_ScoredExactlyOnce ==
    /\ \A p \in DOMAIN players : players[p].scored <= 1
    /\ (last.op = "advance" /\ current_round = NumBookings)
           => \A p \in DOMAIN players : players[p].scored = 1

\* C3: after an accept_booking of a non-host player P has been processed
\* while booking R was current, however many were processed before it, P's
\* accepted list holds booking R exactly once and P's choice_history maps R to
\* Accepted.
C3_SecondAcceptIsNoOp ==
    (/\ last.op = "accept_booking"
     /\ last.round \in BookingIds
     /\ ConnPlayer(last.conn) # host_id)
        => LET p == players[ConnPlayer(last.conn)]
           IN /\ Count(p.accepted_bookings, last.round) = 1
              /\ last.round \in DOMAIN p.choice_history
              /\ p.choice_history[last.round] = "Accepted"

\* C4: an accept_booking that a non-host player sent while round R was current
\* and that is processed after the timer has advanced the room past R is
\* ignored: it changes no player's accepted list and no player's
\* choice_history.
C4_StaleAcceptIgnored ==
    [][(/\ last'.op = "accept_booking"
        /\ last'.issued # last'.round
        /\ ConnPlayer(last'.conn) # host_id)
          => players' = players]_vars

\* C5: once a reject_booking of a non-host player P has been processed while
\* booking R was current, P's choice_history maps R to Rejected.
C5_RejectRecorded ==
    (/\ last.op = "reject_booking"
     /\ game_status = "IN_PROGRESS"
     /\ last.round \in BookingIds
     /\ ConnPlayer(last.conn) # host_id)
        => LET p == players[ConnPlayer(last.conn)]
           IN /\ last.round \in DOMAIN p.choice_history
              /\ p.choice_history[last.round] = "Rejected"

\* C6: over every advance applied while booking R is current, every non-host
\* player of the roster ends with a choice_history entry for R, Rejected if
\* the player had none before and the entry the player had otherwise; every
\* other entry and every accepted list is left as it was.
C6_AdvanceAutoRejects ==
    [][last'.op = "advance"
          => LET R == last'.round
             IN /\ DOMAIN players' = DOMAIN players
                /\ \A p \in DOMAIN players :
                      players'[p].accepted_bookings = players[p].accepted_bookings
                /\ \A p \in NonHost(players) :
                      LET before == players[p].choice_history
                          after == players'[p].choice_history
                      IN /\ DOMAIN after = (DOMAIN before) \cup {R}
                         /\ \A b \in DOMAIN before : after[b] = before[b]
                         /\ R \notin DOMAIN before => after[R] = "Rejected"]_vars

\* An advance has just closed a round that one player had accepted and another
\* had left undecided.
C6_Witness ==
    /\ last.op = "advance"
    /\ \E p, q \in NonHost(players) :
          /\ last.round \in DOMAIN players[p].choice_history
          /\ players[p].choice_history[last.round] = "Accepted"
          /\ last.round \in DOMAIN players[q].choice_history
          /\ players[q].choice_history[last.round] = "Rejected"

\* C7: current_round stays within 0..NumBookings, never decreases from one
\* step to the next, and equals NumBookings only in status FINISHED.
C7_RoundMonotoneAndBounded ==
    [][/\ 0 <= current_round' /\ current_round' <= NumBookings
       /\ current_round' >= current_round
       /\ current_round' = NumBookings => game_status' = "FINISHED"]_vars

\* C8: an accept_booking of a non-host player processed while the session is
\* not IN_PROGRESS (WAITING or FINISHED) leaves every accepted list and every
\* choice_history unchanged.
C8_AcceptOutsideGameIgnored ==
    [][(/\ last'.op = "accept_booking"
        /\ game_status # "IN_PROGRESS"
        /\ ConnPlayer(last'.conn) # host_id)
          => players' = players]_vars

Max(a, b) == IF a >= b THEN a ELSE b

\* C9: in every FINISHED state every player's penalties follow from the total
\* show-ups S behind the stored final_revenue: overbooking_penalty is
\* 6000 * max(0, S - capacity), underbooking_penalty is
\* 3000 * max(0, capacity - S), and total_score is final_revenue minus both.
C9_PenaltiesMatchShowUps ==
    game_status = "FINISHED"
        => \A p \in DOMAIN players :
              LET S == players[p].total_showed_up
              IN /\ players[p].overbooking_penalty =
                        OVERBOOKING_PENALTY_PER_SEAT * Max(0, S - Capacity)
                 /\ players[p].underbooking_penalty =
                        UNDERBOOKING_PENALTY_PER_SEAT * Max(0, Capacity - S)
                 /\ players[p].total_score =
                        players[p].final_revenue
                        - players[p].overbooking_penalty
                        - players[p].underbooking_penalty

\* C10: a delivery of a view to the room (lobby update, round view, final
\* results) in which one registered connection is closed and another is open
\* does not raise and reaches every open one.
C10_DeadConnectionNeverBlocks ==
    (/\ last.delivery.kind # "none"
     /\ last.delivery.open # {}
     /\ last.delivery.targets \ last.delivery.open # {})
        => /\ ~last.delivery.raised
           /\ last.delivery.open \subseteq last.delivery.got

\* The operations that handle one message read from a connection.
InboundOps == {"start_game", "accept_booking", "reject_booking",
               "unknown_action", "malformed"}

\* C11: the serving task of a connection ends only on a transport disconnect:
\* over every step that handles a message read from a connection whose
\* transport is connected, that connection's serving task is still serving
\* afterwards.
C11_TaskEndsOnlyOnDisconnect ==
    [][\A c \in Conns :
          (conn[c] = "open" /\ last'.conn = c /\ last'.op \in InboundOps)
              => conn'[c] = "open"]_vars

\* C12: the host is excluded from decision tracking: in every reachable state
\* the host's choice_history is empty and the host's accepted list is empty,
\* whatever arrives on the host's connection.
C12_HostNotTracked ==
    /\ DOMAIN players[host_id].choice_history = {}
    /\ players[host_id].accepted_bookings = <<>>

\* C13: only the host can start the game: a start_game message handled on the
\* connection of a non-host player leaves game_status and current_round
\* unchanged and creates no round_timer task.
C13_OnlyHostStarts ==
    [][(last'.op = "start_game" /\ ConnPlayer(last'.conn) # host_id)
          => /\ game_status' = game_status
             /\ current_round' = current_round
             /\ timers' = timers]_vars

\* C14: advance on a finished session is a no-op: applied while current_round
\* equals the booking count, advance_to_next_round leaves current_round,
\* game_status and every player (choice_history, accepted list, score fields)
\* unchanged.
C14_AdvanceOnFinishedIsNoOp ==
    [][(last'.op = "advance_to_next_round" /\ current_round = NumBookings)
          => /\ current_round' = current_round
             /\ game_status' = game_status
             /\ players' = players]_vars

\* advance_to_next_round has just been applied to a finished room in which a
\* player holds an accepted booking and a non-zero score.
C14_Witness ==
    /\ last.op = "advance_to_next_round"
    /\ last.round = NumBookings
    /\ game_status = "FINISHED"
    /\ \E p \in NonHost(players) :
          /\ players[p].accepted_bookings # <<>>
          /\ players[p].total_score # 0

\* C15: at most one round_timer task is pending per round: in every reachable
\* state, for every round R, at most one task that captured R has not fired
\* yet.
C15_OneTimerPerRound == \A r \in BookingIds : timers[r] <= 1

\* C16: a stale trigger is a silent no-op: over every step in which a
\* round_timer task that captured round R fires while current_round differs
\* from R, the room (current_round, game_status, every player) is unchanged,
\* nothing is sent and no task is created; and a task that fires while
\* current_round equals R moves current_round to R + 1, so that a second task
\* that captured R finds the round changed.
C16_StaleTimerIsNoOp ==
    [][\A r \in BookingIds :
          timers'[r] = timers[r] - 1
              => IF current_round # r
                 THEN /\ players' = players
                      /\ current_round' = current_round
                      /\ game_status' = game_status
                      /\ last'.delivery = NoDelivery
                      /\ \A q \in BookingIds \ {r} : timers'[q] = timers[q]
                 ELSE current_round' = r + 1]_vars

\* The second of two tasks that captured the same round has just fired in a
\* running game, after the first had closed that round.
C16_Witness ==
    /\ last.op = "stale_timer"
    /\ game_status = "IN_PROGRESS"
    /\ current_round = last.issued + 1

\* C17: per-recipient delivery works on a snapshot: when a per-recipient loop
\* of start_new_round has ended without an exception, every connection that
\* was registered throughout (no connection registers during a loop here, so:
\* every connection still registered) has been sent its payload exactly once.
C17_DeliveryOnSnapshot ==
    (last.op = "emit_end" /\ ~emission.raised)
        => \A c \in Registered : Count(emission.got, c) = 1

\* C18: every started session eventually finishes without any player action:
\* from every state with game_status IN_PROGRESS in which the round_timer
\* task of the current round is pending, if every pending round_timer task
\* eventually fires, a state with game_status FINISHED and current_round
\* equal to the booking count is reached, also when a registered connection
\* is closed or disconnects during the game.
C18_StartedSessionFinishes ==
    (game_status = "IN_PROGRESS" /\ current_round \in BookingIds
                                 /\ timers[current_round] > 0)
        ~> (game_status = "FINISHED" /\ current_round = NumBookings)

\* C19: the accepted list and the choice history agree: in every reachable
\* state, for every player and every booking id b, b occurs in the player's
\* accepted_bookings if and only if the player's choice_history maps b to
\* Accepted.
C19_AcceptedMatchesHistory ==
    \A p \in DOMAIN players : \A b \in BookingIds :
        Count(players[p].accepted_bookings, b) > 0
            <=> (/\ b \in DOMAIN players[p].choice_history
                 /\ players[p].choice_history[b] = "Accepted")

\* A timer has closed a round in which a player had accepted, and the same
\* player holds an auto-rejection for another round.
C19_Witness ==
    /\ last.op = "advance"
    /\ \E p \in NonHost(players) :
          LET h == players[p].choice_history
          IN /\ last.round \in DOMAIN h
             /\ h[last.round] = "Accepted"
             /\ Count(players[p].accepted_bookings, last.round) > 0
             /\ \E b \in DOMAIN h : h[b] = "Rejected"

\* C20: a finished session has a complete decision record: in the FINISHED
\* state the last advance leaves, every non-host player of the roster,
\* players added after the game had started included, has a choice_history
\* entry for every booking id.
C20_FinishedRecordComplete ==
    (game_status = "FINISHED" /\ last.op = "advance")
        => \A p \in NonHost(players) :
              DOMAIN players[p].choice_history = BookingIds

====
